---------------------------- MODULE Spec2Model ----------------------------
(***************************************************************************)
(* Model of qgrep's archive builder (src/build.cpp): the Builder class     *)
(* (start / appendFile / flush / ~Builder with its chunk layout encoder    *)
(* and codec adapter), the file selection pipeline and buildProject.       *)
(*                                                                         *)
(* A byte buffer is a sequence of cells, each cell a natural number.  A    *)
(* fixed-width integer field of a header occupies one cell, a character of *)
(* a name or a byte of a file's contents occupies one cell.  Sizes and     *)
(* offsets are counted in cells.                                           *)
(***************************************************************************)
EXTENDS Naturals, Sequences, FiniteSets

(***************************************************************************)
(* Bounds of the model.                                                    *)
(***************************************************************************)
\* appendFile calls a client of the Builder makes
MaxAppends == 4
\* entries of the explicit file list plus paths the scans enumerate
MaxListed == 3
\* buildProject calls in one process
MaxRuns == 2
\* entries of the explicit file list of a project built in a repeated run
MaxRerunListed == 2
\* files of a chunk handed to prepareChunkData
MaxEncFiles == 3

(***************************************************************************)
(* Program constants, scaled to cells.                                     *)
(***************************************************************************)
\* the chunk size threshold (constants.hpp), scaled down
kChunkSize == 3
\* char buffer[65536] of appendFile's read loop, scaled down
kReadBufferSize == 2
\* sizeof(ChunkFileHeader): nameOffset, nameLength, dataOffset, dataSize,
\* fileSize, timeStamp
kChunkFileHeaderSize == 6
\* sizeof(ChunkHeader): fileCount, uncompressedSize, compressedSize
kChunkHeaderSize == 3
\* FileHeader.magic
kFileHeaderMagic == <<113, 103, 100, 48>>

(***************************************************************************)
(* Sequence helpers.                                                       *)
(***************************************************************************)
Min(a, b) == IF a <= b THEN a ELSE b

Drop(s, n) == SubSeq(s, n + 1, Len(s))

Take(s, n) == SubSeq(s, 1, Min(n, Len(s)))

RECURSIVE Flatten(_)
Flatten(ss) == IF ss = <<>> THEN <<>> ELSE Head(ss) \o Flatten(Tail(ss))

Range(s) == {s[k] : k \in 1..Len(s)}

(***************************************************************************)
(* The file system the Builder reads: the paths a caller may name and, for *)
(* each, what a successful read and getFileAttributes deliver.  fileSize   *)
(* is the attribute reported by the file system; it need not equal the     *)
(* number of bytes read.                                                   *)
(***************************************************************************)
Paths == {<<1>>, <<1, 2>>, <<2>>, <<2, 1>>}

DiskContents(path) ==
    CASE path = <<1>>    -> <<>>
      [] path = <<1, 2>> -> <<5, 5>>
      [] path = <<2>>    -> <<5, 6, 6, 6>>
      [] OTHER           -> <<6>>

DiskFileSize(path) ==
    CASE path = <<1>>    -> 0
      [] path = <<1, 2>> -> 2
      [] path = <<2>>    -> 9
      [] OTHER           -> 1

DiskTimeStamp(path) ==
    CASE path = <<1>>    -> 13
      [] path = <<1, 2>> -> 14
      [] path = <<2>>    -> 14
      [] OTHER           -> 17

\* what opening and reading attributes of a path can do
Outcomes == {"ok", "noopen", "noattr"}

(***************************************************************************)
(* Builder state.                                                          *)
(***************************************************************************)
\* Chunk(): totalSize(0)
EmptyChunk == [files |-> <<>>, totalSize |-> 0]

\* Builder(): statistics = Statistics(), currentChunk, outData not open
NewBuilder ==
    [currentChunk |-> EmptyChunk,
     outData      |-> [isOpen |-> FALSE, bytes |-> <<>>],
     statistics   |-> [fileCount |-> 0, fileSize |-> 0, resultSize |-> 0]]

\* std::ofstream::write: a stream that was never opened drops the bytes
StreamWrite(out, cells) ==
    IF out.isOpen THEN [out EXCEPT !.bytes = @ \o cells] ELSE out

(***************************************************************************)
(* Codec adapter.  LZ4 is modelled by run-length coding: each maximal run  *)
(* (capped as the input ends) becomes the pair <<run length, value>>.      *)
(***************************************************************************)
RECURSIVE RunLength(_, _)
RunLength(s, v) ==
    IF s # <<>> /\ Head(s) = v THEN 1 + RunLength(Tail(s), v) ELSE 0

RECURSIVE LZ4_compressHC(_)
LZ4_compressHC(data) ==
    IF data = <<>> THEN <<>>
    ELSE LET n == RunLength(data, Head(data))
         IN  <<n, Head(data)>> \o LZ4_compressHC(Drop(data, n))

LZ4_compressBound(n) == 2 * n

RECURSIVE Repeat(_, _)
Repeat(v, n) == IF n = 0 THEN <<>> ELSE <<v>> \o Repeat(v, n - 1)

RECURSIVE LZ4_uncompress(_)
LZ4_uncompress(cdata) ==
    IF Len(cdata) < 2 THEN <<>>
    ELSE Repeat(cdata[2], cdata[1]) \o LZ4_uncompress(Drop(cdata, 2))

\* Builder::compressData: cdata sized to the bound, compressed, resized
CompressData(data) == LZ4_compressHC(data)

\* the assertion of compressData
CompressAssert(data) ==
    Len(LZ4_compressHC(data)) <= LZ4_compressBound(Len(data))

(***************************************************************************)
(* Chunk layout encoder.                                                   *)
(***************************************************************************)
RECURSIVE GetChunkNameTotalSizeFrom(_, _)
GetChunkNameTotalSizeFrom(files, i) ==
    IF i > Len(files) THEN 0
    ELSE Len(files[i].name) + GetChunkNameTotalSizeFrom(files, i + 1)

GetChunkNameTotalSize(chunk) == GetChunkNameTotalSizeFrom(chunk.files, 1)

RECURSIVE GetChunkDataTotalSizeFrom(_, _)
GetChunkDataTotalSizeFrom(files, i) ==
    IF i > Len(files) THEN 0
    ELSE Len(files[i].contents) + GetChunkDataTotalSizeFrom(files, i + 1)

GetChunkDataTotalSize(chunk) == GetChunkDataTotalSizeFrom(chunk.files, 1)

\* std::copy(src.begin(), src.end(), data.begin() + offset)
CopyAt(data, offset, src) ==
    [k \in 1..Len(data) |->
        IF k > offset /\ k <= offset + Len(src) THEN src[k - offset] ELSE data[k]]

\* header entry with the two offsets exchanged
ChunkFileHeaderOffsetsSwapped(f, nameOffset, dataOffset) ==
    <<dataOffset, Len(f.name), nameOffset, Len(f.contents), f.fileSize, f.timeStamp>>

\* the fields of header entry i, in the order of ChunkFileHeader
ChunkFileHeader(f, nameOffset, dataOffset) ==
    <<nameOffset, Len(f.name), dataOffset, Len(f.contents), f.fileSize, f.timeStamp>>

\* PrepareStep with the data cursor advanced by the name's length
PrepareStepNameAdvance(files, i, st) ==
    LET f  == files[i]
        d1 == CopyAt(st.data, st.nameOffset, f.name)
        d2 == CopyAt(d1, st.dataOffset, f.contents)
        d3 == CopyAt(d2, kChunkFileHeaderSize * (i - 1),
                     ChunkFileHeader(f, st.nameOffset, st.dataOffset))
    IN  [data       |-> d3,
         nameOffset |-> st.nameOffset + Len(f.name),
         dataOffset |-> st.dataOffset + Len(f.name)]

\* one iteration of the loop of prepareChunkData, i counted from 1
PrepareStep(files, i, st) ==
    LET f  == files[i]
        d1 == CopyAt(st.data, st.nameOffset, f.name)
        d2 == CopyAt(d1, st.dataOffset, f.contents)
        d3 == CopyAt(d2, kChunkFileHeaderSize * (i - 1),
                     ChunkFileHeader(f, st.nameOffset, st.dataOffset))
    IN  [data       |-> d3,
         nameOffset |-> st.nameOffset + Len(f.name),
         dataOffset |-> st.dataOffset + Len(f.contents)]

RECURSIVE PrepareLoop(_, _, _)
PrepareLoop(files, i, st) ==
    IF i > Len(files) THEN st
    ELSE PrepareLoop(files, i + 1, PrepareStep(files, i, st))

\* prepareChunkData whose data cursor starts right after the header table
PrepareChunkDataAtNames(chunk) ==
    LET headerSize == kChunkFileHeaderSize * Len(chunk.files)
        nameSize   == GetChunkNameTotalSize(chunk)
        dataSize   == GetChunkDataTotalSize(chunk)
        totalSize  == headerSize + nameSize + dataSize
    IN  PrepareLoop(chunk.files, 1,
                    [data       |-> [k \in 1..totalSize |-> 0],
                     nameOffset |-> headerSize,
                     dataOffset |-> headerSize])

\* prepareChunkData up to its assertion: the buffer and the two cursors
PrepareChunk(chunk) ==
    LET headerSize == kChunkFileHeaderSize * Len(chunk.files)
        nameSize   == GetChunkNameTotalSize(chunk)
        dataSize   == GetChunkDataTotalSize(chunk)
        totalSize  == headerSize + nameSize + dataSize
    IN  PrepareLoop(chunk.files, 1,
                    [data       |-> [k \in 1..totalSize |-> 0],
                     nameOffset |-> headerSize,
                     dataOffset |-> headerSize + nameSize])

PrepareChunkData(chunk) == PrepareChunk(chunk).data

(***************************************************************************)
(* Builder operations, as functions of the Builder.                        *)
(***************************************************************************)
\* ChunkHeader with the two sizes exchanged
ChunkHeaderSizesSwapped(chunk, data, cdata) ==
    <<Len(chunk.files), Len(cdata), Len(data)>>

\* ChunkHeader header = {}; fileCount, uncompressedSize, compressedSize
ChunkHeader(chunk, data, cdata) == <<Len(chunk.files), Len(data), Len(cdata)>>

\* writeChunk counting the chunk, not its files
WriteChunkCountsChunks(b, chunk, data) ==
    LET cdata == CompressData(data)
        out1  == StreamWrite(b.outData, ChunkHeader(chunk, data, cdata))
        out2  == StreamWrite(out1, cdata)
    IN  [b EXCEPT !.outData = out2,
                  !.statistics =
                      [fileCount  |-> @.fileCount + 1,
                       fileSize   |-> @.fileSize + Len(data),
                       resultSize |-> @.resultSize + Len(cdata)]]

WriteChunk(b, chunk, data) ==
    LET cdata == CompressData(data)
        out1  == StreamWrite(b.outData, ChunkHeader(chunk, data, cdata))
        out2  == StreamWrite(out1, cdata)
    IN  [b EXCEPT !.outData = out2,
                  !.statistics =
                      [fileCount  |-> @.fileCount + Len(chunk.files),
                       fileSize   |-> @.fileSize + Len(data),
                       resultSize |-> @.resultSize + Len(cdata)]]

\* flushChunk that writes a chunk only once it is over the threshold
FlushChunkWhenFull(b) ==
    IF b.currentChunk.totalSize <= kChunkSize THEN b
    ELSE [WriteChunk(b, b.currentChunk, PrepareChunkData(b.currentChunk))
             EXCEPT !.currentChunk = EmptyChunk]

\* flushChunk that keeps the chunk it has written
FlushChunkNoReset(b) ==
    IF b.currentChunk.files = <<>> THEN b
    ELSE WriteChunk(b, b.currentChunk, PrepareChunkData(b.currentChunk))

\* flushChunk without the test for an empty chunk
FlushChunkAlways(b) ==
    [WriteChunk(b, b.currentChunk, PrepareChunkData(b.currentChunk))
        EXCEPT !.currentChunk = EmptyChunk]

FlushChunk(b) ==
    IF b.currentChunk.files = <<>> THEN b
    ELSE [WriteChunk(b, b.currentChunk, PrepareChunkData(b.currentChunk))
             EXCEPT !.currentChunk = EmptyChunk]

\* start that opens the stream and writes no container header
StartBuilderNoHeader(b, ok) ==
    IF ~ok THEN b
    ELSE [b EXCEPT !.outData = [isOpen |-> TRUE, bytes |-> <<>>]]

\* bool start(path): ok says whether the stream could be opened
StartBuilder(b, ok) ==
    IF ~ok THEN b
    ELSE [b EXCEPT !.outData = StreamWrite([isOpen |-> TRUE, bytes |-> <<>>],
                                           kFileHeaderMagic)]

\* the read loop of appendFile: in.read of at most a buffer until eof
RECURSIVE ReadAll(_)
ReadAll(rest) ==
    IF rest = <<>> THEN <<>>
    ELSE Take(rest, kReadBufferSize) \o ReadAll(Drop(rest, kReadBufferSize))

\* File file = {path}; attributes; contents
ReadFile(path) ==
    [name      |-> path,
     contents  |-> ReadAll(DiskContents(path)),
     fileSize  |-> DiskFileSize(path),
     timeStamp |-> DiskTimeStamp(path)]

\* the threshold test with >= for >
ThresholdFlushAtEqual(b) ==
    IF b.currentChunk.totalSize >= kChunkSize THEN FlushChunk(b) ELSE b

\* the threshold test one cell late
ThresholdFlushLate(b) ==
    IF b.currentChunk.totalSize > kChunkSize + 1 THEN FlushChunk(b) ELSE b

\* the threshold test at the head of appendFile
ThresholdFlush(b) ==
    IF b.currentChunk.totalSize > kChunkSize THEN FlushChunk(b) ELSE b

\* appendFile that keeps a file whose attributes could not be read
AppendFileKeepsUnread(b, path, outcome) ==
    LET b1 == ThresholdFlush(b)
        f  == ReadFile(path)
    IN  IF outcome = "noopen" THEN b1
        ELSE [b1 EXCEPT !.currentChunk =
                 [files     |-> Append(@.files, f),
                  totalSize |-> @.totalSize + Len(f.contents)]]

\* appendFile that adds the size of the attributes to totalSize
AppendFileCountsFileSize(b, path, outcome) ==
    LET b1 == ThresholdFlush(b)
        f  == ReadFile(path)
    IN  IF outcome # "ok" THEN b1
        ELSE [b1 EXCEPT !.currentChunk =
                 [files     |-> Append(@.files, f),
                  totalSize |-> @.totalSize + f.fileSize]]

\* bool appendFile(path): the Builder after the call
AppendFile(b, path, outcome) ==
    LET b1 == ThresholdFlush(b)
        f  == ReadFile(path)
    IN  IF outcome # "ok" THEN b1
        ELSE [b1 EXCEPT !.currentChunk =
                 [files     |-> Append(@.files, f),
                  totalSize |-> @.totalSize + Len(f.contents)]]

\* what appendFile returns
AppendFileResult(outcome) == outcome = "ok"

\* flush() that closes what it wrote with an empty chunk record
FlushWithEndRecord(b) ==
    LET b1 == FlushChunk(b)
    IN  WriteChunk(b1, EmptyChunk, <<>>)

\* void flush()
Flush(b) == FlushChunk(b)


(***************************************************************************)
(* A reader of the archive (spec section 6): the container header, then    *)
(* chunk records until the end of the stream, each a ChunkHeader followed  *)
(* by compressedSize cells; a decompressed body holds fileCount header     *)
(* entries whose offsets are relative to the start of the body.            *)
(***************************************************************************)
Cell(s, k) == IF k \in 1..Len(s) THEN s[k] ELSE 0

Slice(s, offset, n) == [k \in 1..n |-> Cell(s, offset + k)]

HasMagic(bytes) == Take(bytes, Len(kFileHeaderMagic)) = kFileHeaderMagic

RECURSIVE ReadRecords(_)
ReadRecords(s) ==
    IF Len(s) < kChunkHeaderSize THEN <<>>
    ELSE <<[fileCount        |-> s[1],
            uncompressedSize |-> s[2],
            compressedSize   |-> s[3],
            body             |-> Take(Drop(s, kChunkHeaderSize), s[3])]>>
         \o ReadRecords(Drop(s, kChunkHeaderSize + s[3]))

\* every record is whole: a full ChunkHeader and compressedSize cells after it
RECURSIVE WholeRecords(_)
WholeRecords(s) ==
    \/ s = <<>>
    \/ /\ Len(s) >= kChunkHeaderSize
       /\ Len(s) >= kChunkHeaderSize + s[3]
       /\ WholeRecords(Drop(s, kChunkHeaderSize + s[3]))

ArchiveRecords(bytes) == ReadRecords(Drop(bytes, Len(kFileHeaderMagic)))

DecodeFile(body, i) ==
    LET h == Slice(body, kChunkFileHeaderSize * (i - 1), kChunkFileHeaderSize)
    IN  [name      |-> Slice(body, h[1], h[2]),
         contents  |-> Slice(body, h[3], h[4]),
         fileSize  |-> h[5],
         timeStamp |-> h[6]]

DecodeChunk(rec) ==
    LET body == LZ4_uncompress(rec.body)
    IN  [i \in 1..rec.fileCount |-> DecodeFile(body, i)]

\* the files of each chunk record, record by record
ArchiveChunks(bytes) ==
    LET recs == ArchiveRecords(bytes)
    IN  [k \in 1..Len(recs) |-> DecodeChunk(recs[k])]

\* the files of the archive, in output order
ArchiveFiles(bytes) == Flatten(ArchiveChunks(bytes))

(***************************************************************************)
(* State.                                                                  *)
(***************************************************************************)
VARIABLES
    builder,    \* the Builder: currentChunk, outData, statistics
    life,       \* "none", "live" or "destroyed": the Builder object
    started,    \* start() has returned true on this Builder
    appended,   \* the files appendFile has added, in call order (history)
    last,       \* the last call on the Builder and what it returned
    finalized,  \* flush() or ~Builder() has been called on this Builder
    nAppends,   \* appendFile calls made so far
    pc,             \* where buildProject is; "idle" when it is not running
    project,        \* what parseInput and traverseDirectory deliver
    bc,             \* BuilderContext: include, exclude, files
    idx,            \* the index i of the append loop, counted from 1
    failed,         \* the paths appendFile returned false for (history)
    target,         \* the file at targetPath
    lastResultSize, \* the static of printStatistics
    progress,       \* the progress lines printed in this run
    runs,           \* buildProject calls begun in this process
    encoder         \* a chunk handed to prepareChunkData and what it returned

builderVars == <<builder, life, started, appended, last, finalized, nAppends>>

projectVars == <<pc, project, bc, idx, failed, target, lastResultSize, progress>>

auxVars == <<runs, encoder>>

vars == <<builderVars, projectVars, auxVars>>

Call(op, ret) == [op |-> op, ret |-> ret]

(***************************************************************************)
(* Calls on the Builder.                                                   *)
(***************************************************************************)
DoConstruct ==
    /\ builder' = NewBuilder
    /\ life' = "live"
    /\ started' = FALSE
    /\ appended' = <<>>
    /\ finalized' = FALSE
    /\ last' = Call("construct", TRUE)

DoStart(ok) ==
    /\ builder' = StartBuilder(builder, ok)
    /\ started' = ok
    /\ last' = Call("start", ok)
    /\ UNCHANGED <<life, appended, finalized>>

DoAppendFile(path, outcome) ==
    /\ builder' = AppendFile(builder, path, outcome)
    /\ appended' = IF AppendFileResult(outcome)
                   THEN Append(appended, ReadFile(path)) ELSE appended
    /\ last' = Call("appendFile", AppendFileResult(outcome))
    /\ UNCHANGED <<life, started, finalized>>

DoFlush ==
    /\ builder' = Flush(builder)
    /\ last' = Call("flush", TRUE)
    /\ finalized' = TRUE
    /\ UNCHANGED <<life, started, appended>>

\* ~Builder(): flush(), then the members go: the stream is closed
DoDestroy ==
    /\ builder' = [Flush(builder) EXCEPT !.outData.isOpen = FALSE]
    /\ life' = "destroyed"
    /\ last' = Call("destroy", TRUE)
    /\ finalized' = TRUE
    /\ UNCHANGED <<started, appended>>

(***************************************************************************)
(* File selection pipeline.  A pattern of the project file is modelled by  *)
(* whether it compiles and by the set of paths it matches.                 *)
(***************************************************************************)
PatA == [valid |-> TRUE, matches |-> {<<1>>, <<1, 2>>}]

PatB == [valid |-> TRUE, matches |-> {<<1, 2>>, <<2, 1>>}]

PatBad == [valid |-> FALSE, matches |-> {}]

\* the null RE2 pointer
NoRE == [null |-> TRUE, ok |-> TRUE, matches |-> {}]

\* constructOrRE up to its r->ok() test: "(p1)|(p2)|..."
ConstructOrRE(list) ==
    IF list = <<>> THEN NoRE
    ELSE [null    |-> FALSE,
          ok      |-> \A k \in 1..Len(list) : list[k].valid,
          matches |-> UNION {list[k].matches : k \in 1..Len(list)}]

\* RE2::PartialMatch(path, re)
PartialMatch(path, re) == re.ok /\ path \in re.matches

IsFileAcceptable(c, path) ==
    IF ~c.include.null /\ ~PartialMatch(path, c.include) THEN FALSE
    ELSE IF ~c.exclude.null /\ PartialMatch(path, c.exclude) THEN FALSE
    ELSE TRUE

\* the traversal callback over every path the scans enumerate
RECURSIVE ScanInto(_, _, _)
ScanInto(c, files, scanned) ==
    IF scanned = <<>> THEN files
    ELSE ScanInto(c,
                  IF IsFileAcceptable(c, Head(scanned))
                  THEN Append(files, Head(scanned)) ELSE files,
                  Tail(scanned))

\* operator< of std::string
RECURSIVE StringLess(_, _)
StringLess(a, b) ==
    IF b = <<>> THEN FALSE
    ELSE IF a = <<>> THEN TRUE
    ELSE IF Head(a) # Head(b) THEN Head(a) < Head(b)
    ELSE StringLess(Tail(a), Tail(b))

RECURSIVE InsertSorted(_, _)
InsertSorted(x, s) ==
    IF s = <<>> THEN <<x>>
    ELSE IF StringLess(Head(s), x) THEN <<Head(s)>> \o InsertSorted(x, Tail(s))
    ELSE <<x>> \o s

\* std::sort(begin, end)
RECURSIVE Sort(_)
Sort(s) == IF s = <<>> THEN <<>> ELSE InsertSorted(Head(s), Sort(Tail(s)))

\* erase(std::unique(begin, end), end): one of each run of equal neighbours
RECURSIVE Unique(_)
Unique(s) ==
    IF Len(s) < 2 THEN s
    ELSE IF s[1] = s[2] THEN Unique(Tail(s))
    ELSE <<s[1]>> \o Unique(Tail(s))

\* the list sorted, duplicates kept
SortOnly(files) == Sort(files)

\* lines 356-357 of buildProject
SortUnique(files) == Unique(Sort(files))

(***************************************************************************)
(* printStatistics.                                                        *)
(***************************************************************************)
NoProgress == [lines |-> 0, percent |-> 0, divByZero |-> FALSE, crashed |-> FALSE]

\* what an integer division by zero can do: the process is killed by the
\* trap, or the division yields some value
UndefinedDivision ==
    {[trap |-> TRUE, value |-> 0], [trap |-> FALSE, value |-> 0],
     [trap |-> FALSE, value |-> 101]}

\* the static and the progress output after printStatistics(fileCount, s);
\* undef is what the division does when fileCount is 0
PrintStatistics(fileCount, s, st, undef) ==
    IF st.lastResultSize = s.resultSize THEN st
    ELSE [lastResultSize |-> s.resultSize,
          progress |->
              IF fileCount = 0 /\ undef.trap
              THEN [st.progress EXCEPT !.divByZero = TRUE, !.crashed = TRUE]
              ELSE [lines     |-> st.progress.lines + 1,
                    percent   |-> IF fileCount = 0 THEN undef.value
                                  ELSE (s.fileCount * 100) \div fileCount,
                    divByZero |-> st.progress.divByZero \/ fileCount = 0,
                    crashed   |-> FALSE]]

DoPrintStatistics(fileCount, s) ==
    \E undef \in UndefinedDivision :
        LET st == PrintStatistics(fileCount, s,
                      [lastResultSize |-> lastResultSize, progress |-> progress],
                      undef)
        IN  /\ lastResultSize' = st.lastResultSize
            /\ progress' = st.progress

(***************************************************************************)
(* buildProject, step by step.                                             *)
(***************************************************************************)
\* fatal(): the diagnostic is printed and the run ends there
Fatal == "fatal"

\* error(): the diagnostic is printed and the caller goes on
ErrorReturns == TRUE

\* the process killed by the trap of a division by zero
Crashed == "crashed"

\* where the run is after a printStatistics call that leads to next
AfterPrint(p, next) == IF p.crashed THEN Crashed ELSE next

IncludeSets == {<<>>, <<PatA, PatB>>, <<PatBad>>}

ExcludeSets == {<<>>, <<PatB>>, <<PatA, PatBad>>}

RECURSIVE SeqsUpTo(_, _)
SeqsUpTo(S, n) ==
    IF n = 0 THEN {<<>>}
    ELSE LET shorter == SeqsUpTo(S, n - 1)
         IN  shorter \cup {Append(q, x) : q \in shorter, x \in S}

\* the parsed project files with an explicit list fs, and the enumerations
\* of their scans: MaxListed paths in all
Projects(fs) ==
    {[opened |-> TRUE, fileSet |-> fs, scanned |-> sc,
      includeSet |-> inc, excludeSet |-> exc] :
        sc \in SeqsUpTo(Paths, MaxListed - Len(fs)),
        inc \in IncludeSets, exc \in ExcludeSets}

\* parseInput returned false: nothing was read
NoProject ==
    [opened |-> FALSE, fileSet |-> <<>>, scanned |-> <<>>,
     includeSet |-> <<>>, excludeSet |-> <<>>]

NoContext == [include |-> NoRE, exclude |-> NoRE, files |-> <<>>]

\* what targetPath holds before the run
OldTarget == [exists |-> TRUE, bytes |-> <<0>>]

\* where buildProject goes after parseInput
AfterParse(ok) == IF ~ok THEN Fatal ELSE "regex"

\* where buildProject goes after the two constructOrRE calls
AfterRegex(include, exclude) ==
    IF ~include.ok THEN Fatal
    ELSE IF ~exclude.ok THEN Fatal
    ELSE "start"

\* buildProject going on after a start that failed
AfterStartUnchecked(ok) == "scan"

\* where buildProject goes after bc.builder.start
AfterStart(ok) == IF ~ok THEN Fatal ELSE "scan"

\* where buildProject goes after renameFile
AfterRename(ok) == IF ~ok THEN Fatal ELSE "done"

\* the append loop stopping one file early
InLoopSkipLast(i, files) == i < Len(files)

\* the condition of the append loop, i counted from 1
InLoop(i, files) == i <= Len(files)

\* builderAppend treating a read error as fatal
AfterAppendAbort(ret) == IF ~ret THEN Fatal ELSE "append"

\* where builderAppend leaves the loop
AfterAppend(ret) == IF ~ret /\ ~ErrorReturns THEN Fatal ELSE "append"

BuildParse ==
    /\ pc = "parse"
    /\ \E ok \in BOOLEAN, fs \in SeqsUpTo(Paths, MaxListed) : \E p \in Projects(fs) :
        /\ project' = IF ok THEN p ELSE project
        /\ pc' = AfterParse(ok)
    /\ UNCHANGED <<builderVars, bc, idx, failed, target, lastResultSize, progress>>
    /\ UNCHANGED auxVars

BuildRegex ==
    /\ pc = "regex"
    /\ DoConstruct
    /\ LET include == ConstructOrRE(project.includeSet)
           exclude == ConstructOrRE(project.excludeSet)
       IN  /\ bc' = [bc EXCEPT !.include = include,
                               !.exclude = IF include.ok THEN exclude ELSE @]
           /\ pc' = AfterRegex(include, exclude)
    /\ UNCHANGED <<nAppends, project, idx, failed, target, lastResultSize, progress>>
    /\ UNCHANGED auxVars

BuildStart ==
    /\ pc = "start"
    /\ \E ok \in BOOLEAN :
        /\ DoStart(ok)
        /\ pc' = AfterStart(ok)
    /\ UNCHANGED <<nAppends, project, bc, idx, failed, target, lastResultSize, progress>>
    /\ UNCHANGED auxVars

\* bc.files = fileSet, then the scans
BuildScan ==
    /\ pc = "scan"
    /\ bc' = [bc EXCEPT !.files = ScanInto(bc, project.fileSet, project.scanned)]
    /\ pc' = "sort"
    /\ UNCHANGED <<builderVars, project, idx, failed, target, lastResultSize, progress>>
    /\ UNCHANGED auxVars

BuildSort ==
    /\ pc = "sort"
    /\ bc' = [bc EXCEPT !.files = SortUnique(@)]
    /\ idx' = 1
    /\ pc' = "append"
    /\ UNCHANGED <<builderVars, project, failed, target, lastResultSize, progress>>
    /\ UNCHANGED auxVars

\* one iteration of the loop: builderAppend(bc, bc.files[i])
BuildAppend ==
    /\ pc = "append"
    /\ InLoop(idx, bc.files)
    /\ \E outcome \in Outcomes :
        /\ DoAppendFile(bc.files[idx], outcome)
        /\ failed' = IF AppendFileResult(outcome) THEN failed
                     ELSE failed \cup {bc.files[idx]}
        /\ DoPrintStatistics(Len(bc.files), builder'.statistics)
        /\ pc' = AfterPrint(progress', AfterAppend(AppendFileResult(outcome)))
    /\ idx' = idx + 1
    /\ UNCHANGED <<nAppends, project, bc, target>>
    /\ UNCHANGED auxVars

\* bc.builder.flush(); printStatistics(...)
BuildFlush ==
    /\ pc = "append"
    /\ ~InLoop(idx, bc.files)
    /\ DoFlush
    /\ DoPrintStatistics(Len(bc.files), builder'.statistics)
    /\ pc' = AfterPrint(progress', "destroy")
    /\ UNCHANGED <<nAppends, project, bc, idx, failed, target>>
    /\ UNCHANGED auxVars

\* the block of bc ends: ~Builder()
BuildEndScope ==
    /\ pc = "destroy"
    /\ DoDestroy
    /\ pc' = "rename"
    /\ UNCHANGED <<nAppends, project, bc, idx, failed, target, lastResultSize, progress>>
    /\ UNCHANGED auxVars

\* renameFile(tempPath, targetPath)
BuildRename ==
    /\ pc = "rename"
    /\ \E ok \in BOOLEAN :
        /\ target' = IF ok THEN [exists |-> TRUE, bytes |-> builder.outData.bytes]
                     ELSE target
        /\ pc' = AfterRename(ok)
    /\ UNCHANGED <<builderVars, project, bc, idx, failed, lastResultSize, progress>>
    /\ UNCHANGED auxVars

\* no chunk has been handed to prepareChunkData
NoEncoding ==
    [chunk    |-> EmptyChunk,
     prepared |-> FALSE,
     out      |-> [data |-> <<>>, nameOffset |-> 0, dataOffset |-> 0]]

ProjectIdle ==
    /\ project = NoProject
    /\ bc = NoContext
    /\ idx = 0
    /\ failed = {}
    /\ target = OldTarget
    /\ lastResultSize = 0
    /\ progress = NoProgress
    /\ encoder = NoEncoding

BuildInit ==
    /\ builder = NewBuilder
    /\ life = "none"
    /\ started = FALSE
    /\ appended = <<>>
    /\ last = Call("none", TRUE)
    /\ finalized = FALSE
    /\ nAppends = 0
    /\ pc = "parse"
    /\ runs = 1
    /\ ProjectIdle

BuildNext ==
    \/ BuildParse
    \/ BuildRegex
    \/ BuildStart
    \/ BuildScan
    \/ BuildSort
    \/ BuildAppend
    \/ BuildFlush
    \/ BuildEndScope
    \/ BuildRename

(***************************************************************************)
(* A client of the Builder: start once on the fresh Builder, then any      *)
(* sequence of appendFile and flush, then destruction.                     *)
(***************************************************************************)
Init ==
    /\ builder = NewBuilder
    /\ life = "live"
    /\ started = FALSE
    /\ appended = <<>>
    /\ last = Call("construct", TRUE)
    /\ finalized = FALSE
    /\ nAppends = 0
    /\ pc = "idle"
    /\ runs = 0
    /\ ProjectIdle

Start ==
    /\ life = "live" /\ last.op = "construct"
    /\ \E ok \in BOOLEAN : DoStart(ok)
    /\ UNCHANGED <<nAppends, projectVars>>
    /\ UNCHANGED auxVars

ClientAppendFile ==
    /\ life = "live" /\ last.op # "construct"
    /\ nAppends < MaxAppends
    /\ \E path \in Paths, outcome \in Outcomes : DoAppendFile(path, outcome)
    /\ nAppends' = nAppends + 1
    /\ UNCHANGED projectVars
    /\ UNCHANGED auxVars

ClientFlush ==
    /\ life = "live" /\ last.op # "construct"
    /\ DoFlush
    /\ UNCHANGED <<nAppends, projectVars>>
    /\ UNCHANGED auxVars

Destroy ==
    /\ life = "live"
    /\ DoDestroy
    /\ UNCHANGED <<nAppends, projectVars>>
    /\ UNCHANGED auxVars

Next == Start \/ ClientAppendFile \/ ClientFlush \/ Destroy

Spec == Init /\ [][Next]_vars

BuildSpec == BuildInit /\ [][BuildNext]_vars

(***************************************************************************)
(* buildProject called again in the same process: the static of            *)
(* printStatistics keeps its value, everything else belongs to the call.   *)
(* The projects of these runs list explicit files only.                    *)
(***************************************************************************)
RerunParse ==
    /\ pc = "parse"
    /\ \E ok \in BOOLEAN, fs \in SeqsUpTo(Paths, MaxRerunListed) :
        /\ project' = IF ok THEN [NoProject EXCEPT !.opened = TRUE, !.fileSet = fs]
                      ELSE project
        /\ pc' = AfterParse(ok)
    /\ UNCHANGED <<builderVars, bc, idx, failed, target, lastResultSize, progress>>
    /\ UNCHANGED auxVars

\* buildProject has returned; it is called for another project file
Rerun ==
    /\ pc = "done"
    /\ runs < MaxRuns
    /\ runs' = runs + 1
    /\ builder' = NewBuilder
    /\ life' = "none"
    /\ started' = FALSE
    /\ appended' = <<>>
    /\ last' = Call("none", TRUE)
    /\ finalized' = FALSE
    /\ pc' = "parse"
    /\ project' = NoProject
    /\ bc' = NoContext
    /\ idx' = 0
    /\ failed' = {}
    /\ target' = OldTarget
    /\ progress' = NoProgress
    /\ UNCHANGED <<nAppends, lastResultSize, encoder>>

RerunNext ==
    \/ RerunParse
    \/ BuildRegex
    \/ BuildStart
    \/ BuildScan
    \/ BuildSort
    \/ BuildAppend
    \/ BuildFlush
    \/ BuildEndScope
    \/ BuildRename
    \/ Rerun

RerunSpec == BuildInit /\ [][RerunNext]_vars

(***************************************************************************)
(* The layout encoder on its own: prepareChunkData applied to any chunk of *)
(* up to MaxEncFiles files, names and contents of length zero included.    *)
(***************************************************************************)
EncNames == {<<>>, <<1>>, <<1, 2>>}

EncContents == {<<>>, <<5>>, <<5, 6>>}

EncFiles ==
    {[name |-> n, contents |-> c, fileSize |-> Len(c) + 20, timeStamp |-> Len(n) + 30] :
        n \in EncNames, c \in EncContents}

\* a file joins the chunk as in appendFile
EncodeAppend ==
    /\ Len(encoder.chunk.files) < MaxEncFiles
    /\ \E f \in EncFiles :
        encoder' = [NoEncoding EXCEPT !.chunk =
                       [files     |-> Append(encoder.chunk.files, f),
                        totalSize |-> encoder.chunk.totalSize + Len(f.contents)]]
    /\ UNCHANGED <<builderVars, projectVars, runs>>

\* prepareChunkData(chunk), called as flushChunk calls it: the chunk has files
EncodePrepare ==
    /\ encoder.chunk.files # <<>>
    /\ ~encoder.prepared
    /\ encoder' = [encoder EXCEPT !.prepared = TRUE,
                                  !.out = PrepareChunk(encoder.chunk)]
    /\ UNCHANGED <<builderVars, projectVars, runs>>

EncodeNext == EncodeAppend \/ EncodePrepare

EncodeSpec == Init /\ [][EncodeNext]_vars

(***************************************************************************)
(* Properties of the Builder under any client (Spec).                      *)
(***************************************************************************)
Last(s) == s[Len(s)]

RECURSIVE ContentSize(_)
ContentSize(files) ==
    IF files = <<>> THEN 0 ELSE Len(Head(files).contents) + ContentSize(Tail(files))

RECURSIVE NameSize(_)
NameSize(files) ==
    IF files = <<>> THEN 0 ELSE Len(Head(files).name) + NameSize(Tail(files))

Bytes == builder.outData.bytes

Finalized == last.op \in {"flush", "destroy"}

\* C1: on a started Builder, after any appendFile calls followed by
\* finalize, the files decoded from the written chunk records, chunk by
\* chunk and entry by entry, are exactly the files appended, as (name,
\* contents, fileSize, timeStamp), in append order.
C1_RoundTrip ==
    (started /\ Finalized) =>
        /\ HasMagic(Bytes)
        /\ ArchiveFiles(Bytes) = appended

C1_Witness ==
    /\ started /\ Finalized
    /\ Len(ArchiveRecords(Bytes)) >= 2
    /\ Len(appended) >= 3
    /\ \E k \in 1..Len(appended) : appended[k].contents = <<>>
    /\ \E k \in 1..Len(appended) : Len(appended[k].contents) > kReadBufferSize

\* C2: after finalize (flush() or destruction) the current chunk is empty
\* and every appended file is in a written chunk record, also when the
\* chunk never exceeded the threshold.
C2_FinalChunkWritten ==
    Finalized =>
        /\ builder.currentChunk = EmptyChunk
        /\ started =>
             LET chunks == ArchiveChunks(Bytes)
             IN  \A k \in 1..Len(appended) :
                    \E c \in 1..Len(chunks) :
                       \E j \in 1..Len(chunks[c]) : chunks[c][j] = appended[k]

C2_Witness ==
    /\ started /\ last.op = "flush"
    /\ appended # <<>>
    /\ ContentSize(appended) < kChunkSize
    /\ Len(ArchiveRecords(Bytes)) = 1

\* all files of the chunk but the last one are within the threshold
WithinThreshold(files) ==
    files = <<>> \/ ContentSize(SubSeq(files, 1, Len(files) - 1)) <= kChunkSize

\* C3: every chunk, the current one in every state and every written one,
\* exceeds the threshold by at most one file: the contents of all its
\* files but the last one sum to at most kChunkSize.
C3_OvershootOneFile ==
    /\ WithinThreshold(builder.currentChunk.files)
    /\ started =>
         LET chunks == ArchiveChunks(Bytes)
         IN  \A c \in 1..Len(chunks) : WithinThreshold(chunks[c])

C3_Witness ==
    /\ started
    /\ \E c \in 1..Len(ArchiveChunks(Bytes)) :
          /\ Len(ArchiveChunks(Bytes)[c]) >= 2
          /\ ContentSize(ArchiveChunks(Bytes)[c]) > kChunkSize
    /\ ContentSize(builder.currentChunk.files) > kChunkSize

\* C4: appendFile flushes the current chunk exactly when, before the file
\* is added, the chunk is non-empty and its content size is strictly above
\* kChunkSize; the flushed record holds the chunk as it was before the
\* call, and the file of the call stays in the current chunk.
C4_CheckBeforeAppend ==
    [][(started /\ last'.op = "appendFile") =>
        LET chunk == builder.currentChunk
            over  == chunk.files # <<>> /\ ContentSize(chunk.files) > kChunkSize
            kept  == IF over THEN <<>> ELSE chunk.files
        IN  /\ over =>
                 /\ ArchiveChunks(Bytes') = Append(ArchiveChunks(Bytes), chunk.files)
            /\ ~over => Bytes' = Bytes
            /\ builder'.currentChunk.files =
                 IF last'.ret THEN Append(kept, Last(appended')) ELSE kept
       ]_vars

\* sizes 2, 2, 2 against the threshold 3 (10, 10, 10 against 15): the third
\* call has written {file1, file2} and holds file3
C4_Witness ==
    LET f == ReadFile(<<1, 2>>)
    IN  /\ started /\ last.op = "appendFile"
        /\ appended = <<f, f, f>>
        /\ ArchiveChunks(Bytes) = << <<f, f>> >>
        /\ builder.currentChunk.files = <<f>>

\* C9 as stated: once flush() (or destruction) has been called, no later
\* appendFile or flush call adds a chunk record to the output stream.
C9_ClosedAfterFinalize == [][finalized => Bytes' = Bytes]_vars

\* C9 amended: the Builder stays open after flush(): the call that directly
\* follows a flush() adds no chunk record, and a file appended after a
\* flush is accepted as the only file of a new current chunk.
C9_OpenAfterFlush ==
    [][last.op = "flush" =>
        /\ Bytes' = Bytes
        /\ (last'.op = "appendFile" /\ last'.ret) =>
               builder'.currentChunk.files = <<Last(appended')>>
      ]_vars

\* a file accepted after a flush() that wrote the only record so far
C9_Witness ==
    /\ started /\ finalized /\ last = Call("appendFile", TRUE)
    /\ ContentSize(appended) <= kChunkSize
    /\ Len(ArchiveRecords(Bytes)) = 1
    /\ Len(builder.currentChunk.files) = 1

\* C10: every chunk record written is self-describing: fileCount is the
\* number of files of the flushed chunk (at least 1), uncompressedSize is
\* entrySize * fileCount + the name lengths + the content lengths,
\* compressedSize is the number of cells written right after the header, and
\* the stream after the container header is a sequence of whole records.
C10_SelfDescribingRecord ==
    /\ [](started => WholeRecords(Drop(Bytes, Len(kFileHeaderMagic))))
    /\ [][(started /\ Bytes' # Bytes) =>
            LET chunk == builder.currentChunk
                added == Drop(Bytes', Len(Bytes))
                body  == Drop(added, kChunkHeaderSize)
            IN  /\ Take(Bytes', Len(Bytes)) = Bytes
                /\ Len(added) >= kChunkHeaderSize
                /\ added[1] = Len(chunk.files)
                /\ added[1] >= 1
                /\ added[2] = kChunkFileHeaderSize * added[1]
                                + NameSize(chunk.files) + ContentSize(chunk.files)
                /\ added[3] = Len(body)
                /\ Len(LZ4_uncompress(body)) = added[2]
         ]_vars

C10_Witness ==
    /\ started
    /\ Len(ArchiveRecords(Bytes)) >= 2
    /\ \E k \in 1..Len(ArchiveRecords(Bytes)) :
          /\ ArchiveRecords(Bytes)[k].fileCount >= 2
          /\ ArchiveRecords(Bytes)[k].compressedSize
                # ArchiveRecords(Bytes)[k].uncompressedSize

(***************************************************************************)
(* Properties of buildProject (BuildSpec).                                 *)
(***************************************************************************)
Names(files) == [k \in 1..Len(files) |-> files[k].name]

\* the entries of list that are not in the set skip, in order
RECURSIVE Without(_, _)
Without(list, skip) ==
    IF list = <<>> THEN <<>>
    ELSE IF Head(list) \in skip THEN Without(Tail(list), skip)
    ELSE <<Head(list)>> \o Without(Tail(list), skip)

\* what reading each path of the list delivers
ReadEach(list) == [k \in 1..Len(list) |-> ReadFile(list[k])]

Published == target # OldTarget

\* C5: the temp file is renamed to the target path only after every file of
\* the final list has gone through appendFile, the final chunk has been
\* flushed and the stream has been closed: a published target is the whole
\* archive of the run.
C5_RenameAfterComplete ==
    Published =>
        /\ pc = "done"
        /\ idx = Len(bc.files) + 1
        /\ Len(appended) + Cardinality(failed) = Len(bc.files)
        /\ builder.currentChunk = EmptyChunk
        /\ life = "destroyed" /\ ~builder.outData.isOpen
        /\ target = [exists |-> TRUE, bytes |-> Bytes]
        /\ HasMagic(Bytes)
        /\ WholeRecords(Drop(Bytes, Len(kFileHeaderMagic)))
        /\ ArchiveFiles(Bytes) = appended

C5_Witness ==
    /\ Published /\ pc = "done"
    /\ Len(ArchiveRecords(target.bytes)) >= 2
    /\ Len(bc.files) >= 3

\* a configuration error has been met: the project file did not open, a
\* pattern list did not compile, or the temp file did not open
ConfigError ==
    \/ pc # "parse" /\ ~project.opened
    \/ /\ pc \notin {"parse", "regex"}
       /\ \/ \E k \in 1..Len(project.includeSet) : ~project.includeSet[k].valid
          \/ \E k \in 1..Len(project.excludeSet) : ~project.excludeSet[k].valid
    \/ pc \notin {"parse", "regex", "start"} /\ ~started

\* C6: after a configuration error the run is in its fatal state, the
\* Builder was never finalized or destroyed, and the target path still
\* holds what it held before the run: the rename is never executed.
C6_ConfigErrorPublishesNothing ==
    ConfigError =>
        /\ pc = Fatal
        /\ target = OldTarget
        /\ last.op \in {"none", "construct", "start"}
        /\ appended = <<>>

C6_Witness ==
    /\ pc = Fatal /\ ConfigError
    /\ project.opened /\ life = "live" /\ last = Call("start", FALSE)

\* C7: a file appendFile returned false for is in no chunk record and does
\* not stop the run: the files archived are the readable files of the
\* final list, in order; after a read error only a failing rename ends the
\* run in the fatal state, otherwise the archive is published.
C7_ReadErrorSkipsFile ==
    /\ \A p \in failed :
          /\ p \notin Range(Names(ArchiveFiles(Bytes)))
          /\ p \notin Range(Names(builder.currentChunk.files))
    /\ pc = "append" =>
          ArchiveFiles(Bytes) \o builder.currentChunk.files
             = ReadEach(Without(SubSeq(bc.files, 1, idx - 1), failed))
    /\ pc \in {"destroy", "rename", "done"} =>
          ArchiveFiles(Bytes) = ReadEach(Without(bc.files, failed))
    /\ (pc = Fatal /\ failed # {}) => last.op = "destroy"
    /\ pc = "done" => target = [exists |-> TRUE, bytes |-> Bytes]

C7_Witness ==
    /\ pc = "done" /\ Published
    /\ \E i, j \in 1..Len(bc.files) :
          i < j /\ bc.files[i] \in failed /\ bc.files[j] \notin failed
    /\ \E i, j \in 1..Len(bc.files) :
          i < j /\ bc.files[i] \notin failed /\ bc.files[j] \in failed

\* the scanned paths that pass the filters of the project
Accepted ==
    {p \in Range(project.scanned) :
        /\ \/ project.includeSet = <<>>
           \/ \E k \in 1..Len(project.includeSet) : p \in project.includeSet[k].matches
        /\ \/ project.excludeSet = <<>>
           \/ ~\E k \in 1..Len(project.excludeSet) : p \in project.excludeSet[k].matches}

\* C8: the list fed to the Builder is strictly ascending in lexicographic
\* order and is, as a set, the explicit file list united with the scanned
\* paths that match the include pattern (when there is one) and do not
\* match the exclude pattern (when there is one).
C8_SortedUniqueSelection ==
    pc \in {"append", "destroy", "rename", "done"} =>
        /\ \A k \in 1..(Len(bc.files) - 1) : StringLess(bc.files[k], bc.files[k + 1])
        /\ Range(bc.files) = Range(project.fileSet) \cup Accepted

C8_Witness ==
    /\ pc = "append"
    /\ \E k \in 1..(Len(project.fileSet) - 1) :
          StringLess(project.fileSet[k + 1], project.fileSet[k])
    /\ Range(project.fileSet) \cap Accepted # {}
    /\ project.includeSet # <<>>
    /\ \E k \in 1..Len(project.fileSet) :
          \A j \in 1..Len(project.includeSet) :
             project.fileSet[k] \notin project.includeSet[j].matches

(***************************************************************************)
(* Statistics, flush and the stream (Spec).                                *)
(***************************************************************************)
RECURSIVE SumField(_, _)
SumField(recs, field) ==
    IF recs = <<>> THEN 0 ELSE Head(recs)[field] + SumField(Tail(recs), field)

\* the current chunk is one the threshold test of appendFile flushes
OverThreshold ==
    /\ builder.currentChunk.files # <<>>
    /\ ContentSize(builder.currentChunk.files) > kChunkSize

\* C11: on a started Builder the statistics are, in every state, the sums
\* of fileCount, uncompressedSize and compressedSize over the chunk records
\* written so far, and an appendFile that flushes nothing leaves them as
\* they were.
C11_StatisticsPerChunk ==
    /\ [](started =>
            LET recs == ArchiveRecords(Bytes)
            IN  /\ builder.statistics.fileCount = SumField(recs, "fileCount")
                /\ builder.statistics.fileSize = SumField(recs, "uncompressedSize")
                /\ builder.statistics.resultSize = SumField(recs, "compressedSize"))
    /\ [][(last'.op = "appendFile" /\ ~OverThreshold) =>
             builder'.statistics = builder.statistics]_vars

C11_Witness ==
    /\ started /\ last = Call("appendFile", TRUE)
    /\ Len(ArchiveRecords(Bytes)) >= 2
    /\ builder.statistics.fileCount >= 3
    /\ builder.statistics.fileCount > Len(ArchiveRecords(Bytes))
    /\ Len(builder.currentChunk.files) >= 1

(***************************************************************************)
(* The layout encoder on its own (EncodeSpec).                             *)
(***************************************************************************)
EncHeaderTableSize == kChunkFileHeaderSize * Len(encoder.chunk.files)

EncNameRegionSize == NameSize(encoder.chunk.files)

EncDataRegionSize == ContentSize(encoder.chunk.files)

\* C12: for every call of prepareChunkData on a non-empty chunk, files with
\* zero-length names or contents included, the name cursor ends at
\* headerTableSize + nameRegionSize and the data cursor at the size of the
\* buffer, which is the sum of the three regions: the assertion holds.
C12_CursorPostCondition ==
    encoder.prepared =>
        /\ encoder.out.nameOffset = EncHeaderTableSize + EncNameRegionSize
        /\ encoder.out.dataOffset = Len(encoder.out.data)
        /\ Len(encoder.out.data) =
               EncHeaderTableSize + EncNameRegionSize + EncDataRegionSize

C12_Witness ==
    /\ encoder.prepared
    /\ Len(encoder.chunk.files) >= 2
    /\ \E k \in 1..Len(encoder.chunk.files) : encoder.chunk.files[k].name = <<>>
    /\ \E k \in 1..Len(encoder.chunk.files) : encoder.chunk.files[k].contents = <<>>
    /\ EncNameRegionSize > 0
    /\ EncDataRegionSize > 0

\* header entry i as it stands in the encoded body
EncEntry(i) == Slice(encoder.out.data, kChunkFileHeaderSize * (i - 1),
                     kChunkFileHeaderSize)

\* the cells offset+1 .. offset+n
Cells(offset, n) == (offset + 1)..(offset + n)

\* C13: header entry i of the encoded body describes file i: its name
\* offset is headerTableSize plus the name lengths before i, its data
\* offset headerTableSize + nameRegionSize plus the content lengths before
\* i; the slices hold the file's name and contents, lie in the name region
\* and the data region, and those of different files share no cell.
C13_EntryDescribesFile ==
    encoder.prepared =>
        LET files == encoder.chunk.files
            data  == encoder.out.data
        IN  /\ \A i \in 1..Len(files) :
                LET e == EncEntry(i)
                IN  /\ e[1] = EncHeaderTableSize + NameSize(Take(files, i - 1))
                    /\ e[2] = Len(files[i].name)
                    /\ e[3] = EncHeaderTableSize + EncNameRegionSize
                                  + ContentSize(Take(files, i - 1))
                    /\ e[4] = Len(files[i].contents)
                    /\ e[5] = files[i].fileSize
                    /\ e[6] = files[i].timeStamp
                    /\ Slice(data, e[1], e[2]) = files[i].name
                    /\ Slice(data, e[3], e[4]) = files[i].contents
                    /\ Cells(e[1], e[2]) \subseteq
                           Cells(EncHeaderTableSize, EncNameRegionSize)
                    /\ Cells(e[3], e[4]) \subseteq
                           Cells(EncHeaderTableSize + EncNameRegionSize,
                                 EncDataRegionSize)
                    /\ Cells(e[3], e[4]) \subseteq 1..Len(data)
            /\ \A i, j \in 1..Len(files) :
                i # j =>
                    /\ Cells(EncEntry(i)[1], EncEntry(i)[2])
                           \cap Cells(EncEntry(j)[1], EncEntry(j)[2]) = {}
                    /\ Cells(EncEntry(i)[3], EncEntry(i)[4])
                           \cap Cells(EncEntry(j)[3], EncEntry(j)[4]) = {}
                    /\ Cells(EncEntry(i)[1], EncEntry(i)[2])
                           \cap Cells(EncEntry(j)[3], EncEntry(j)[4]) = {}

C13_Witness ==
    /\ encoder.prepared
    /\ Len(encoder.chunk.files) = MaxEncFiles
    /\ \A k \in 1..Len(encoder.chunk.files) :
        /\ encoder.chunk.files[k].name # <<>>
        /\ encoder.chunk.files[k].contents # <<>>
    /\ encoder.chunk.files[1].name # encoder.chunk.files[2].name
    /\ encoder.chunk.files[1].contents # encoder.chunk.files[2].contents

\* C14: flush() on an empty current chunk, in flush() itself or in the
\* destructor, writes nothing and leaves statistics and the chunk as they
\* were; so a flush() or a destruction that directly follows a flush()
\* changes neither the output nor the statistics nor the chunk.
C14_FlushEmptyNoOp ==
    [][(last'.op \in {"flush", "destroy"}
          /\ (builder.currentChunk.files = <<>> \/ last.op = "flush")) =>
        /\ Bytes' = Bytes
        /\ builder'.statistics = builder.statistics
        /\ builder'.currentChunk = builder.currentChunk
       ]_vars

C14_Witness ==
    /\ started /\ last.op = "flush"
    /\ appended = <<>>
    /\ Bytes = kFileHeaderMagic
    /\ builder.statistics.resultSize = 0
    /\ nAppends >= 1

\* the cells of chunk record k of the stream, header and body
RecordCells(rec) ==
    <<rec.fileCount, rec.uncompressedSize, rec.compressedSize>> \o rec.body

\* C15: once start() has succeeded the stream is, in every state, the
\* container header followed by whole chunk records and nothing else; the
\* records hold the appended files in append order, those of the current
\* chunk still to come; what is written is never changed; and before
\* start() has succeeded the stream holds nothing.
C15_HeaderThenRecords ==
    /\ [](~started => Bytes = <<>>)
    /\ [](started =>
            LET recs == ArchiveRecords(Bytes)
            IN  /\ HasMagic(Bytes)
                /\ WholeRecords(Drop(Bytes, Len(kFileHeaderMagic)))
                /\ Bytes = kFileHeaderMagic
                             \o Flatten([k \in 1..Len(recs) |-> RecordCells(recs[k])])
                /\ ArchiveFiles(Bytes) \o builder.currentChunk.files = appended)
    /\ [][started => Take(Bytes', Len(Bytes)) = Bytes]_vars

C15_Witness ==
    /\ started /\ last.op = "appendFile"
    /\ Len(ArchiveRecords(Bytes)) >= 2
    /\ Len(ArchiveChunks(Bytes)[1]) # Len(ArchiveChunks(Bytes)[2])
    /\ builder.currentChunk.files # <<>>

(***************************************************************************)
(* Progress lines of buildProject, run after run (RerunSpec).              *)
(***************************************************************************)
\* the chunk records the Builder of this run has written
ChunksWritten == Len(ArchiveRecords(Bytes))

\* C16 as stated: a progress line is emitted only when a chunk has been
\* written since the previous printStatistics call, so in every state of a
\* run the lines it has printed are at most the chunks it has written.
C16_LinePerWrittenChunk ==
    /\ progress.lines <= ChunksWritten
    /\ (progress.lines > 0 => builder.statistics.resultSize > 0)

\* C18 as stated: in every run, later runs of the process included, the
\* percentage computation is never reached with a total file count of 0,
\* and the percentage reported is within 0..100.
C18_PercentWellDefined ==
    /\ ~progress.divByZero
    /\ progress.percent \in 0..100

(***************************************************************************)
(* appendFile that fails, totalSize, and what the codec is given (Spec).   *)
(***************************************************************************)
\* C17 as stated: a call of appendFile that returns false leaves the
\* Builder exactly as it was before the call.
C17_FailureLeavesBuilder ==
    [][(last'.op = "appendFile" /\ ~last'.ret) => builder' = builder]_vars

\* C17 amended: a call of appendFile that returns false adds no file; it
\* leaves the Builder as it was unless the current chunk was over the
\* threshold, and then the chunk is written as one record, counted in the
\* statistics and emptied, as a call that succeeds would have done.
C17_FailureAddsNoFile ==
    [][(last'.op = "appendFile" /\ ~last'.ret) =>
        LET chunk == builder.currentChunk
        IN  /\ appended' = appended
            /\ ~OverThreshold => builder' = builder
            /\ OverThreshold =>
                 /\ builder'.currentChunk = EmptyChunk
                 /\ builder'.outData.isOpen = builder.outData.isOpen
                 /\ builder'.statistics.fileCount =
                        builder.statistics.fileCount + Len(chunk.files)
                 /\ builder'.statistics.resultSize > builder.statistics.resultSize
                 /\ started =>
                        ArchiveChunks(Bytes') =
                            Append(ArchiveChunks(Bytes), chunk.files)
       ]_vars

C17_Witness ==
    /\ started /\ ~finalized
    /\ last = Call("appendFile", FALSE)
    /\ nAppends = Len(appended) + 1
    /\ Len(appended) >= 2
    /\ builder.currentChunk = EmptyChunk
    /\ ArchiveChunks(Bytes) = <<appended>>

C20_CodecInputNonEmpty ==
    /\ [](started =>
            LET recs == ArchiveRecords(Bytes)
            IN  /\ WholeRecords(Drop(Bytes, Len(kFileHeaderMagic)))
                /\ \A k \in 1..Len(recs) :
                      /\ recs[k].fileCount >= 1
                      /\ recs[k].uncompressedSize
                             >= kChunkFileHeaderSize * recs[k].fileCount
                      /\ recs[k].compressedSize >= 1)
    /\ [][builder'.statistics # builder.statistics =>
             builder'.statistics.fileSize
                 >= builder.statistics.fileSize + kChunkFileHeaderSize]_vars

C20_Witness ==
    /\ started /\ life = "destroyed"
    /\ Len(ArchiveRecords(Bytes)) >= 2
    /\ \E k \in 1..Len(ArchiveRecords(Bytes)) :
          ArchiveRecords(Bytes)[k].uncompressedSize = kChunkFileHeaderSize + 1
    /\ nAppends > Len(appended)

=============================================================================
